---------------------------- MODULE Spec2Model ----------------------------
(***************************************************************************)
(* Model of the molecular cloning calculator (src/app.py).                 *)
(*                                                                         *)
(* The program is one pure function, calculate_dna_volumes, and the        *)
(* Streamlit script around it that collects the numeric inputs and calls   *)
(* it when the Calculate button is pressed.                                *)
(*                                                                         *)
(* Numbers.  Every real quantity is an exact rational in scientific form:  *)
(* the triple <<m, d, e>> stands for (m / d) * 10^e.  The normal form has   *)
(* d > 0 coprime to 10, gcd(m, d) = 1 and m not divisible by 10 (zero is    *)
(* <<0, 1, 0>>), so equal values are equal triples.  The decimal exponent   *)
(* is kept apart so that the factors 10**-12, 10**9 and 10**3 of the        *)
(* weight formula are multiplied as the code multiplies them.  A triple    *)
(* with d = 0 is one of numpy's non-finite results: <<1,0,0>> is inf,       *)
(* <<-1,0,0>> is -inf and <<0,0,0>> is nan.  The rounding of binary64 is    *)
(* not part of the model: arithmetic is exact.                             *)
(*                                                                         *)
(* Indices.  Python's fragment i (0 = backbone) is element i + 1 of the     *)
(* sequences below.                                                        *)
(***************************************************************************)
EXTENDS Integers, Sequences, FiniteSets

VARIABLES
    num_inserts,      \* widget "Number of inserts"
    ratio,            \* widget "Insert : Backbone ratio" / argument ratio
    n_total,          \* widget "Total amount of DNA" / argument n_total
    bb_length,        \* widget "Length of the backbone"
    bb_concentration, \* widget "Concentration of the backbone"
    insert_length,    \* widgets keyed length_0 .. length_{num_inserts-1}
    insert_conc,      \* widgets keyed conc_0 .. conc_{num_inserts-1}
    lengths,          \* the list lengths handed to calculate_dna_volumes
    concentrations,   \* the list concentrations handed to it
    result,           \* outcome of the last call, or NoResult
    total_volume      \* np.sum(vol) shown by the script after a call

vars == <<num_inserts, ratio, n_total, bb_length, bb_concentration,
          insert_length, insert_conc, lengths, concentrations, result,
          total_volume>>

-----------------------------------------------------------------------------
(* Bounds of the model *)

\* largest value entered into "Number of inserts"
MaxInserts == 2
\* longest argument list of a direct call with valid arguments
MaxFragments == 3
\* longest argument list of a direct call with arbitrary arguments
MaxArgLen == 2

-----------------------------------------------------------------------------
(* Exact rational arithmetic in scientific form *)

Abs(x) == IF x < 0 THEN -x ELSE x

Min(a, b) == IF a <= b THEN a ELSE b

RECURSIVE Gcd(_, _)
Gcd(a, b) == IF b = 0 THEN a ELSE Gcd(b, a % b)

RECURSIVE Pow10(_)
Pow10(k) == IF k <= 0 THEN 1 ELSE 10 * Pow10(k - 1)

\* 1/2 = 5 * 10^-1: moves the factors 2 of the denominator into the exponent
RECURSIVE Den2(_, _, _)
Den2(m, d, e) == IF d % 2 = 0 THEN Den2(m * 5, d \div 2, e - 1) ELSE <<m, d, e>>

\* 1/5 = 2 * 10^-1: moves the factors 5 of the denominator into the exponent
RECURSIVE Den5(_, _, _)
Den5(m, d, e) == IF d % 5 = 0 THEN Den5(m * 2, d \div 5, e - 1) ELSE <<m, d, e>>

\* moves the factors 10 of the numerator into the exponent
RECURSIVE Num10(_, _, _)
Num10(m, d, e) == IF m % 10 = 0 THEN Num10(m \div 10, d, e + 1) ELSE <<m, d, e>>

\* the normal form of (m / d) * 10^e, d # 0
Norm(m, d, e) ==
    IF m = 0 THEN <<0, 1, 0>>
    ELSE LET s  == IF d < 0 THEN -1 ELSE 1
             g  == Gcd(Abs(m), Abs(d))
             a  == Den2((s * m) \div g, (s * d) \div g, e)
             b  == Den5(a[1], a[2], a[3])
         IN  Num10(b[1], b[2], b[3])

Rat(m, d) == Norm(m, d, 0)
Whole(m) == Norm(m, 1, 0)
Zero == <<0, 1, 0>>
One == <<1, 1, 0>>
Inf == <<1, 0, 0>>
NegInf == <<-1, 0, 0>>
NaN == <<0, 0, 0>>

IsFinite(x) == x[2] # 0
Sign(x) == IF x[1] > 0 THEN 1 ELSE IF x[1] < 0 THEN -1 ELSE 0

RMul(x, y) == Norm(x[1] * y[1], x[2] * y[2], x[3] + y[3])

RAdd(x, y) ==
    LET e == Min(x[3], y[3])
        a == x[1] * Pow10(x[3] - e)
        b == y[1] * Pow10(y[3] - e)
    IN  Norm(a * y[2] + b * x[2], x[2] * y[2], e)

RNeg(x) == <<-x[1], x[2], x[3]>>
RSub(x, y) == RAdd(x, RNeg(y))
RLe(x, y) == Sign(RSub(x, y)) <= 0
RLt(x, y) == Sign(RSub(x, y)) < 0

\* the quotient of two finite values, y # 0
RQuot(x, y) == Norm(x[1] * y[2], x[2] * y[1], x[3] - y[3])

RECURSIVE RSum(_)
RSum(s) == IF s = <<>> THEN Zero ELSE RAdd(s[1], RSum(Tail(s)))

\* np.zeros(k)
zeros(k) == [i \in 1..k |-> Zero]

-----------------------------------------------------------------------------
(* calculate_dna_volumes, src/app.py lines 4-35 *)

\* the literal 660 of line 31, the average weight of a base pair
BpWeight == 660

\* the exponents of 10**-12, 10**9 and 10**3 in line 31
PmolToMolExp == -12
GToNgExp == 9
KbpToBpExp == 3

\* 10**k
TenTo(k) == <<1, 1, k>>

\* a Python float division x / y: a zero divisor raises ZeroDivisionError,
\* which the caller of PyDiv tests before it divides
PyDiv(x, y) == RQuot(x, y)

\* a numpy float64 divided by a float: a zero divisor gives inf, -inf or nan
\* (with a RuntimeWarning), no exception
NpDiv(x, y) ==
    IF y # Zero THEN RQuot(x, y)
    ELSE IF Sign(x) > 0 THEN Inf
    ELSE IF Sign(x) < 0 THEN NegInf
    ELSE NaN

\* mutant of Denominator: counts the backbone among the inserts
DenominatorOffByOne(ls, r) == RAdd(One, RMul(r, Whole(Len(ls))))

\* line 18: 1 + ratio * (len(lengths) - 1)
Denominator(ls, r) == RAdd(One, RMul(r, Whole(Len(ls) - 1)))

\* line 18: n_backbone = n_total / (1 + ratio * (len(lengths) - 1))
n_backbone(ls, r, nt) == PyDiv(nt, Denominator(ls, r))

\* mutant of Amount: every fragment gets the backbone's amount
AmountIgnoresRatio(i, r, nb) == nb

\* mutant of Amount: the first insert is taken for the backbone too
AmountOffByOne(i, r, nb) == IF i > 2 THEN RMul(r, nb) ELSE nb

\* line 26: ratio * n_backbone if i > 0 else n_backbone  (i is 1-based here)
Amount(i, r, nb) == IF i > 1 THEN RMul(r, nb) ELSE nb

\* mutant of Weight: the factor 10**3 (kbp to bp) is forgotten
WeightNoKbp(ni, li) ==
    RMul(RMul(RMul(RMul(ni, TenTo(PmolToMolExp)), Whole(BpWeight)),
              TenTo(GToNgExp)), li)

\* mutant of Weight: the factor lengths[i] is forgotten
WeightNoLength(ni, li) ==
    RMul(RMul(RMul(RMul(ni, TenTo(PmolToMolExp)), Whole(BpWeight)),
              TenTo(GToNgExp)), TenTo(KbpToBpExp))

\* line 31: n[i] * 10**-12 * 660 * 10**9 * lengths[i] * 10**3, left to right
Weight(ni, li) ==
    RMul(RMul(RMul(RMul(RMul(ni, TenTo(PmolToMolExp)), Whole(BpWeight)),
                   TenTo(GToNgExp)), li), TenTo(KbpToBpExp))

\* mutant of Volume: multiplies by the concentration
VolumeTimes(wi, ci) == RMul(wi, ci)

\* line 33: weight[i] / concentrations[i]
Volume(wi, ci) == NpDiv(wi, ci)

\* mutant of Item: the lists are read from their end
ItemReversed(s, i) == s[Len(s) + 1 - i]

\* lines 31, 33: the subscripts lengths[i] and concentrations[i]
Item(s, i) == s[i]

\* mutant of DivRaises: the division of a Python float, which raises on zero
DivRaisesPy(wi, ci) == ci = Zero

\* line 33: the division of a numpy float64 raises nothing, whatever the divisor
DivRaises(wi, ci) == FALSE

\* mutant of LoopEnd: the loop stops at the shorter list, as zip would
LoopEndZip(ls, cs) == Min(Len(ls), Len(cs))

\* line 24: the loop runs over range(len(lengths))
LoopEnd(ls, cs) == Len(ls)

NoResult == [called |-> FALSE, raised |-> "none",
             vol |-> <<>>, weight |-> <<>>, n |-> <<>>]

\* an exception leaves the function: its local arrays are dropped with it
Raise(exc) == [called |-> TRUE, raised |-> exc,
               vol |-> <<>>, weight |-> <<>>, n |-> <<>>]

\* line 35: return vol, weight, n
Return(vol, weight, n) == [called |-> TRUE, raised |-> "none",
                           vol |-> vol, weight |-> weight, n |-> n]

\* lines 24-35: the loop from index i on, then the return; concentrations[i]
\* past the end of the list raises IndexError
RECURSIVE Loop(_, _, _, _, _, _, _, _)
Loop(i, ls, cs, r, nb, vol, weight, n) ==
    IF i > LoopEnd(ls, cs) THEN Return(vol, weight, n)
    ELSE IF i > Len(cs) THEN Raise("IndexError")
    ELSE LET ni == Amount(i, r, nb)
             wi == Weight(ni, Item(ls, i))
             vi == Volume(wi, Item(cs, i))
         IN  IF DivRaises(wi, Item(cs, i)) THEN Raise("ZeroDivisionError")
             ELSE Loop(i + 1, ls, cs, r, nb,
                       [vol EXCEPT ![i] = vi],
                       [weight EXCEPT ![i] = wi],
                       [n EXCEPT ![i] = ni])

\* lines 4-35
calculate_dna_volumes(ls, cs, r, nt) ==
    IF Denominator(ls, r) = Zero THEN Raise("ZeroDivisionError")
    ELSE Loop(1, ls, cs, r, n_backbone(ls, r, nt),
              zeros(Len(ls)), zeros(Len(ls)), zeros(Len(ls)))

-----------------------------------------------------------------------------
(* Direct calls of calculate_dna_volumes *)

\* arguments within the preconditions
LengthValues == {Rat(1, 10), Whole(1), Whole(5)}
ConcValues == {Whole(100), Whole(150)}
RatioValues == {Rat(1, 2), Whole(2), Whole(3)}
TotalValues == {Rat(5, 100), Rat(1, 2)}

\* arbitrary numeric arguments, within the preconditions or not
ArgValues == {Whole(-1), Zero, Rat(1, 2), Whole(2)}

SeqsUpTo(S, k) == UNION {[1..m -> S] : m \in 0..k}

\* the preconditions of the calculator (spec 4.1)
Valid(ls, cs, r, nt) ==
    /\ Len(ls) = Len(cs)
    /\ Len(ls) >= 1
    /\ \A i \in 1..Len(ls) : RLt(Zero, ls[i])
    /\ \A i \in 1..Len(cs) : RLt(Zero, cs[i])
    /\ RLt(Zero, r)
    /\ RLt(Zero, nt)

\* a direct call involves no widget: they stay as the script first draws them
WidgetsIdle ==
    /\ num_inserts = 1
    /\ bb_length = Whole(5)
    /\ bb_concentration = Whole(100)
    /\ insert_length = <<Whole(1)>>
    /\ insert_conc = <<Whole(150)>>
    /\ total_volume = Zero

CallInit ==
    /\ WidgetsIdle
    /\ result = NoResult
    /\ \/ \E k \in 1..MaxFragments :
            /\ lengths \in [1..k -> LengthValues]
            /\ concentrations \in [1..k -> ConcValues]
            /\ ratio \in RatioValues
            /\ n_total \in TotalValues
       \/ /\ lengths \in SeqsUpTo(ArgValues, MaxArgLen)
          /\ concentrations \in SeqsUpTo(ArgValues, MaxArgLen)
          /\ ratio \in ArgValues
          /\ n_total \in ArgValues

Call ==
    /\ ~result.called
    /\ result' = calculate_dna_volumes(lengths, concentrations, ratio, n_total)
    /\ UNCHANGED <<num_inserts, ratio, n_total, bb_length, bb_concentration,
                   insert_length, insert_conc, lengths, concentrations,
                   total_volume>>

CallNext == Call

CallSpec == CallInit /\ [][CallNext]_vars

-----------------------------------------------------------------------------
(* The Streamlit script, src/app.py lines 37-95.  Streamlit runs the whole   *)
(* script again after every widget edit and after every press of the button; *)
(* each action below is one such run.                                        *)

\* min_value of the number inputs (lines 44-46, 52, 54, 67, 70)
num_inserts_min == 1
ratio_min == Rat(1, 2)
n_total_min == Rat(5, 100)
bb_length_min == Rat(1, 10)
bb_concentration_min == Rat(1, 10)
length_min == Rat(1, 10)
\* mutant of concentration_min: min_value=0.0
concentration_min_zero == Zero
concentration_min == Rat(1, 10)

\* value of the number inputs: what a widget holds before its first edit
num_inserts_value == 1
ratio_value == Whole(2)
n_total_value == Rat(1, 2)
bb_length_value == Whole(5)
bb_concentration_value == Whole(100)
length_value == Whole(1)
concentration_value == Whole(150)

\* what the user types into a real-valued number input
Entries == {Zero, Rat(1, 10), Whole(3)}

\* st.number_input keeps an entry only if it is not below min_value
Accepts(min, v) == RLe(min, v)

\* lines 57, 64-68: lengths = [bb_length], then one append per insert
BuildLengths(bb, ins, k) == <<bb>> \o [i \in 1..k |-> ins[i]]

\* lines 58, 64-71: concentrations = [bb_concentration], then one append per insert
BuildConcentrations(bb, ins, k) == <<bb>> \o [i \in 1..k |-> ins[i]]

\* the insert widgets after "Number of inserts" becomes k: the widgets keyed
\* length_i / conc_i with i < k keep their values, a widget drawn for the first
\* time holds its default `value`
Widgets(old, k, default) ==
    [i \in 1..k |-> IF i <= Len(old) THEN old[i] ELSE default]

\* np.sum(vol), line 93
RECURSIVE NpSum(_)
NpSum(s) ==
    IF s = <<>> THEN Zero
    ELSE LET x == s[1]
             y == NpSum(Tail(s))
         IN  IF IsFinite(x) /\ IsFinite(y) THEN RAdd(x, y)
             ELSE IF x = NaN \/ y = NaN THEN NaN
             ELSE IF ~IsFinite(x) /\ ~IsFinite(y) /\ x # y THEN NaN
             ELSE IF IsFinite(x) THEN y ELSE x

\* a run of the script in which the button is not pressed (line 74 is false):
\* the lists are rebuilt from the widgets, nothing is computed or shown
Rerun ==
    /\ lengths' = BuildLengths(bb_length', insert_length', num_inserts')
    /\ concentrations' =
           BuildConcentrations(bb_concentration', insert_conc', num_inserts')
    /\ result' = NoResult
    /\ total_volume' = Zero

Init ==
    /\ num_inserts = num_inserts_value
    /\ ratio = ratio_value
    /\ n_total = n_total_value
    /\ bb_length = bb_length_value
    /\ bb_concentration = bb_concentration_value
    /\ insert_length = Widgets(<<>>, num_inserts_value, length_value)
    /\ insert_conc = Widgets(<<>>, num_inserts_value, concentration_value)
    /\ lengths = BuildLengths(bb_length_value, insert_length, num_inserts_value)
    /\ concentrations =
           BuildConcentrations(bb_concentration_value, insert_conc,
                               num_inserts_value)
    /\ result = NoResult
    /\ total_volume = Zero

\* line 44
SetNumInserts(k) ==
    /\ k >= num_inserts_min
    /\ k # num_inserts
    /\ num_inserts' = k
    /\ insert_length' = Widgets(insert_length, k, length_value)
    /\ insert_conc' = Widgets(insert_conc, k, concentration_value)
    /\ UNCHANGED <<ratio, n_total, bb_length, bb_concentration>>
    /\ Rerun

\* line 45
SetRatio(v) ==
    /\ Accepts(ratio_min, v)
    /\ v # ratio
    /\ ratio' = v
    /\ UNCHANGED <<num_inserts, n_total, bb_length, bb_concentration,
                   insert_length, insert_conc>>
    /\ Rerun

\* line 46
SetNTotal(v) ==
    /\ Accepts(n_total_min, v)
    /\ v # n_total
    /\ n_total' = v
    /\ UNCHANGED <<num_inserts, ratio, bb_length, bb_concentration,
                   insert_length, insert_conc>>
    /\ Rerun

\* line 52
SetBbLength(v) ==
    /\ Accepts(bb_length_min, v)
    /\ v # bb_length
    /\ bb_length' = v
    /\ UNCHANGED <<num_inserts, ratio, n_total, bb_concentration,
                   insert_length, insert_conc>>
    /\ Rerun

\* line 54
SetBbConcentration(v) ==
    /\ Accepts(bb_concentration_min, v)
    /\ v # bb_concentration
    /\ bb_concentration' = v
    /\ UNCHANGED <<num_inserts, ratio, n_total, bb_length,
                   insert_length, insert_conc>>
    /\ Rerun

\* line 67
SetLength(i, v) ==
    /\ i \in 1..num_inserts
    /\ Accepts(length_min, v)
    /\ v # insert_length[i]
    /\ insert_length' = [insert_length EXCEPT ![i] = v]
    /\ UNCHANGED <<num_inserts, ratio, n_total, bb_length, bb_concentration,
                   insert_conc>>
    /\ Rerun

\* line 70
SetConcentration(i, v) ==
    /\ i \in 1..num_inserts
    /\ Accepts(concentration_min, v)
    /\ v # insert_conc[i]
    /\ insert_conc' = [insert_conc EXCEPT ![i] = v]
    /\ UNCHANGED <<num_inserts, ratio, n_total, bb_length, bb_concentration,
                   insert_length>>
    /\ Rerun

\* lines 74-95: the button is pressed; the script rebuilds the lists, calls
\* the calculator and shows the three arrays and np.sum(vol).  An exception
\* of the call ends the run with nothing shown.
Calculate ==
    /\ UNCHANGED <<num_inserts, ratio, n_total, bb_length, bb_concentration,
                   insert_length, insert_conc>>
    /\ lengths' = BuildLengths(bb_length, insert_length, num_inserts)
    /\ concentrations' =
           BuildConcentrations(bb_concentration, insert_conc, num_inserts)
    /\ result' = calculate_dna_volumes(lengths', concentrations', ratio, n_total)
    /\ total_volume' =
           IF result'.raised = "none" THEN NpSum(result'.vol) ELSE Zero

Next ==
    \/ \E k \in 0..MaxInserts : SetNumInserts(k)
    \/ \E v \in Entries : SetRatio(v)
    \/ \E v \in Entries : SetNTotal(v)
    \/ \E v \in Entries : SetBbLength(v)
    \/ \E v \in Entries : SetBbConcentration(v)
    \/ \E i \in 1..MaxInserts, v \in Entries : SetLength(i, v)
    \/ \E i \in 1..MaxInserts, v \in Entries : SetConcentration(i, v)
    \/ Calculate

Spec == Init /\ [][Next]_vars

-----------------------------------------------------------------------------
(* The claims.  C1 to C9 are about calculate_dna_volumes and are checked     *)
(* under CallSpec; C10 is about the form and is checked under Spec.          *)

NFrag == Len(lengths)
Called == result.called
Returned == result.called /\ result.raised = "none"
ValidArgs == Valid(lengths, concentrations, ratio, n_total)

\* the reference algorithm of the specification, section 4.1 steps 1-5
RefBackbone == RQuot(n_total, RAdd(One, RMul(ratio, Whole(NFrag - 1))))
RefAmount(i) == IF i = 1 THEN RefBackbone ELSE RMul(ratio, RefBackbone)
RefMass(i) == RMul(RMul(RefAmount(i), Whole(660)), lengths[i])
RefVolume(i) == RQuot(RefMass(i), concentrations[i])

\* the concrete scenario of the specification, section 8
Scenario ==
    /\ lengths = <<Whole(5), Whole(1)>>
    /\ concentrations = <<Whole(100), Whole(150)>>
    /\ ratio = Whole(2)
    /\ n_total = Rat(1, 2)

\* s with element k doubled
Doubled(s, k) == [s EXCEPT ![k] = RMul(Whole(2), s[k])]

\* C1: for valid arguments the call returns and the returned amounts sum to
\* n_total.
C1_AmountsSumToTotal ==
    (Called /\ ValidArgs) => (Returned /\ RSum(result.n) = n_total)

C1_Witness ==
    /\ Called /\ ValidArgs
    /\ NFrag = 3
    /\ ratio = Rat(1, 2)
    /\ result.n[1] # result.n[2]

\* C2: for valid arguments the call returns what the reference algorithm
\* returns: amount[0] = n_total / (1 + ratio * (N - 1)), mass = amount * 660 *
\* length, volume = mass / concentration; the factors 10**-12, 10**9, 10**3
\* cancel, and the concrete scenario gives 550 and 220 ng, 5.5 and 220/150 uL.
C2_MatchesReference ==
    (Called /\ ValidArgs) =>
        /\ Returned
        /\ result.n = [i \in 1..NFrag |-> RefAmount(i)]
        /\ result.weight = [i \in 1..NFrag |-> RefMass(i)]
        /\ result.vol = [i \in 1..NFrag |-> RefVolume(i)]
        /\ Scenario =>
              /\ result.weight = <<Whole(550), Whole(220)>>
              /\ result.vol = <<Rat(55, 10), Rat(220, 150)>>

C2_Witness ==
    /\ Called /\ Scenario
    /\ result.weight = <<Whole(550), Whole(220)>>

\* C3: for valid arguments every insert's amount is ratio times the
\* backbone's amount, whatever the insert's length and concentration.
C3_UniformInsertAmount ==
    (Called /\ ValidArgs) =>
        /\ Returned
        /\ \A i \in 2..NFrag : result.n[i] = RMul(ratio, result.n[1])

C3_Witness ==
    /\ Called /\ ValidArgs
    /\ NFrag = 3
    /\ lengths[2] # lengths[3]
    /\ concentrations[2] # concentrations[3]
    /\ ratio = Whole(3)
    /\ result.n[2] = result.n[3]

\* C4 as stated: a call that violates the preconditions fails with
\* InvalidInput and returns nothing.
C4_InvalidInputRejected ==
    (Called /\ ~ValidArgs) => result.raised = "InvalidInput"

\* C4 as amended: no call fails with InvalidInput.  A call raises
\* ZeroDivisionError exactly when 1 + ratio * (N - 1) is zero, raises
\* IndexError exactly when that denominator is not zero and concentrations is
\* shorter than lengths, and returns N entries per array in every other case,
\* the preconditions violated or not.
C4_NoValidation ==
    Called =>
        LET zero == RAdd(One, RMul(ratio, Whole(NFrag - 1))) = Zero
            short == Len(concentrations) < NFrag
        IN  /\ result.raised # "InvalidInput"
            /\ (result.raised = "ZeroDivisionError") <=> zero
            /\ (result.raised = "IndexError") <=> (~zero /\ short)
            /\ (result.raised = "none") <=> (~zero /\ ~short)
            /\ Returned => Len(result.vol) = NFrag

\* a violating call that returns silently: a zero concentration gives inf
C4_Witness ==
    /\ Returned /\ ~ValidArgs
    /\ NFrag = 2
    /\ Len(concentrations) = 2
    /\ concentrations[2] = Zero
    /\ result.vol[2] = Inf

\* C5: with one fragment and valid arguments, amount[0] = n_total, mass[0] =
\* n_total * 660 * length[0], volume[0] = mass[0] / concentration[0], and the
\* ratio does not influence the result.
C5_BackboneOnly ==
    (Called /\ ValidArgs /\ NFrag = 1) =>
        /\ Returned
        /\ result.n = <<n_total>>
        /\ result.weight = <<RMul(RMul(n_total, Whole(660)), lengths[1])>>
        /\ result.vol = <<RQuot(result.weight[1], concentrations[1])>>
        /\ \A r \in RatioValues :
              calculate_dna_volumes(lengths, concentrations, r, n_total) = result

C5_Witness ==
    /\ Called /\ ValidArgs
    /\ NFrag = 1
    /\ ratio = Whole(3)
    /\ result.n = <<n_total>>

\* C6: a call that returns gives three sequences of N entries each, entry i
\* derived from lengths[i] and concentrations[i], entry 0 the backbone's.
C6_OnePerFragmentInOrder ==
    Returned =>
        /\ Len(result.vol) = NFrag
        /\ Len(result.weight) = NFrag
        /\ Len(result.n) = NFrag
        /\ NFrag >= 1 =>
              RMul(result.n[1], RAdd(One, RMul(ratio, Whole(NFrag - 1)))) = n_total
        /\ \A i \in 1..NFrag :
              /\ result.weight[i] =
                     RMul(RMul(result.n[i], Whole(660)), lengths[i])
              /\ concentrations[i] # Zero =>
                     RMul(result.vol[i], concentrations[i]) = result.weight[i]

C6_Witness ==
    /\ Returned
    /\ NFrag = 3
    /\ lengths[1] # lengths[3]
    /\ concentrations[1] # concentrations[3]
    /\ result.weight[1] # result.weight[3]

\* C7: for valid arguments, doubling concentration[k] halves volume[k] and
\* changes no amount, no mass and no other volume.
C7_ConcentrationScaling ==
    (Called /\ ValidArgs) =>
        \A k \in 1..NFrag :
            LET d == calculate_dna_volumes(lengths, Doubled(concentrations, k),
                                           ratio, n_total)
            IN  /\ d.raised = "none"
                /\ RMul(Whole(2), d.vol[k]) = result.vol[k]
                /\ d.n = result.n
                /\ d.weight = result.weight
                /\ \A j \in (1..NFrag) \ {k} : d.vol[j] = result.vol[j]

C7_Witness ==
    /\ Called /\ ValidArgs
    /\ NFrag = 2
    /\ concentrations[2] = Whole(150)
    /\ calculate_dna_volumes(lengths, Doubled(concentrations, 2),
                             ratio, n_total).vol[2] # result.vol[2]

\* C8: for valid arguments, doubling length[k] doubles mass[k] and volume[k]
\* and changes no amount and no other fragment's mass or volume.
C8_LengthScaling ==
    (Called /\ ValidArgs) =>
        \A k \in 1..NFrag :
            LET d == calculate_dna_volumes(Doubled(lengths, k), concentrations,
                                           ratio, n_total)
            IN  /\ d.raised = "none"
                /\ d.weight[k] = RMul(Whole(2), result.weight[k])
                /\ d.vol[k] = RMul(Whole(2), result.vol[k])
                /\ d.n = result.n
                /\ \A j \in (1..NFrag) \ {k} :
                      /\ d.weight[j] = result.weight[j]
                      /\ d.vol[j] = result.vol[j]

C8_Witness ==
    /\ Called /\ ValidArgs
    /\ NFrag = 2
    /\ lengths[2] = Rat(1, 10)
    /\ calculate_dna_volumes(Doubled(lengths, 2), concentrations,
                             ratio, n_total).weight[2] # result.weight[2]

\* C9: for any arguments a call either returns entries for all N fragments,
\* each with a concentration it was computed from, or fails as a whole and
\* hands the caller no array at all.
C9_AllOrNothing ==
    Called =>
        \/ /\ result.raised = "none"
           /\ NFrag <= Len(concentrations)
           /\ Len(result.vol) = NFrag
           /\ Len(result.weight) = NFrag
           /\ Len(result.n) = NFrag
        \/ /\ result.raised # "none"
           /\ result.vol = <<>>
           /\ result.weight = <<>>
           /\ result.n = <<>>

\* the call fails at the second fragment, after the first was computed
C9_Witness ==
    /\ Called
    /\ NFrag = 2
    /\ Len(concentrations) = 1
    /\ result.raised = "IndexError"
    /\ result.n = <<>>

\* C10: every call made from the form has lists of num_inserts + 1 >= 2
\* entries with the backbone first, every length >= 0.1, every concentration
\* >= 0.1, ratio >= 0.5 and n_total >= 0.05, so neither the denominator
\* 1 + ratio * (N - 1) nor a concentration used as divisor is zero.
C10_FormMeetsPreconditions ==
    Called =>
        /\ NFrag = num_inserts + 1
        /\ Len(concentrations) = num_inserts + 1
        /\ NFrag >= 2
        /\ lengths[1] = bb_length
        /\ concentrations[1] = bb_concentration
        /\ \A i \in 1..NFrag : RLe(Rat(1, 10), lengths[i])
        /\ \A i \in 1..NFrag : RLe(Rat(1, 10), concentrations[i])
        /\ RLe(Rat(1, 2), ratio)
        /\ RLe(Rat(5, 100), n_total)
        /\ RAdd(One, RMul(ratio, Whole(NFrag - 1))) # Zero
        /\ \A i \in 1..NFrag : concentrations[i] # Zero
        /\ Returned
        /\ \A i \in 1..NFrag : IsFinite(result.vol[i])

C10_Witness ==
    /\ Returned
    /\ num_inserts = 2
    /\ concentrations[3] = Rat(1, 10)
    /\ lengths[2] = Whole(3)
    /\ IsFinite(total_volume)
    /\ total_volume # Zero

=============================================================================
